---- MODULE Spec2Model ----
(***************************************************************************)
(* A model of playwright.config.ts: the evaluation of the module, top to   *)
(* bottom (dotenv.config, the three constants, defineConfig), the process  *)
(* environment it reads, and the configuration object it exports.          *)
(***************************************************************************)
EXTENDS Naturals, Sequences, FiniteSets, TLC

\* How many times the module may be evaluated again by a new process
\* (a runner worker importing the configuration) in one behaviour.
MaxRestarts == 1

(***************************************************************************)
(* JavaScript values: process.env.X is a string or undefined.              *)
(***************************************************************************)
Undefined == [t |-> "undefined", s |-> ""]
Str(s) == [t |-> "string", s |-> s]

\* `${v}`: the string conversion of a template literal.
ToStringJS(v) == IF v.t = "undefined" THEN "undefined" ELSE v.s

\* Truthiness of a string-or-undefined value.
Truthy(v) == v.t = "string" /\ v.s # ""

\* a || b
OrJS(a, b) == IF Truthy(a) THEN a ELSE b

\* { ...a, ...b }: the keys of b override those of a (shallow).
Merge(a, b) ==
  [k \in DOMAIN a \cup DOMAIN b |-> IF k \in DOMAIN b THEN b[k] ELSE a[k]]

Empty == [k \in {} |-> ""]

(***************************************************************************)
(* The environment.                                                        *)
(***************************************************************************)
Keys == {"URL", "BEARER_TOKEN", "CI"}

ValuesOf(k) ==
  CASE k = "URL" -> {"", "https://example.test", "http://localhost:3000"}
    [] k = "BEARER_TOKEN" -> {"", "abc123"}
    [] OTHER -> {"true"}

\* Every mapping of some of the keys to strings.
Envs ==
  UNION {{e \in [D -> UNION {ValuesOf(k) : k \in Keys}] :
            \A k \in D : e[k] \in ValuesOf(k)} : D \in SUBSET Keys}

\* The .env file is absent, or holds key=value lines.
NoFile == [present |-> FALSE, parsed |-> Empty]
EnvFiles == {NoFile} \cup {[present |-> TRUE, parsed |-> e] : e \in Envs}

\* process.env.K
EnvGet(env, k) == IF k \in DOMAIN env THEN Str(env[k]) ELSE Undefined

\* dotenv.config({ path: '.env' }): a missing file is not an error; a key
\* the process environment already holds is kept (no override).
DotenvClobber(env, file) ==
  IF file.present
    THEN [k \in DOMAIN env \cup DOMAIN file.parsed |->
            IF k \in DOMAIN env THEN "" ELSE file.parsed[k]]
    ELSE env
DotenvPopulate(env, file) ==
  IF file.present THEN Merge(file.parsed, env) ELSE env

(***************************************************************************)
(* The module's constants.                                                 *)
(***************************************************************************)
DefaultUrl == "https://www.saucedemo.com"

BaseUrlSlash(env) ==
  IF Truthy(EnvGet(env, "URL"))
    THEN Str(EnvGet(env, "URL").s \o "/") ELSE Str(DefaultUrl)
BaseUrlOf(env) == OrJS(EnvGet(env, "URL"), Str(DefaultUrl))

Dirname == "/repo"
PathJoin(a, b) == a \o "/" \o b
StoragePath == PathJoin(Dirname, "playwright/.auth")

BearerTokenOf(env) == EnvGet(env, "BEARER_TOKEN")

(***************************************************************************)
(* What the imported packages contribute to the spreads.                   *)
(***************************************************************************)
\* AnacondaConfigDefaults / AnacondaProjectDefaults of @anaconda/playwright-utils:
\* their content is not part of this repository, so it is an input.
PkgChoices ==
  { [cfg |-> Empty, proj |-> Empty],
    [cfg |-> [testDir |-> "./e2e",
              retries |-> "2",
              projects |-> <<>>,
              webServer |-> [timeout |-> 30000, reuseExistingServer |-> FALSE]],
     proj |-> [headless |-> FALSE,
               baseURL |-> Str("https://anaconda.com"),
               actionTimeout |-> "30000",
               extraHTTPHeaders |-> Empty]] }

\* devices['Desktop Chrome'] of @playwright/test.
DesktopChrome ==
  [viewport |-> [width |-> 1280, height |-> 720],
   deviceScaleFactor |-> 1,
   isMobile |-> FALSE,
   hasTouch |-> FALSE,
   defaultBrowserType |-> "chromium"]

HomeDir == "/home/user"

(***************************************************************************)
(* defineConfig({ ... })                                                   *)
(***************************************************************************)
AuthorizationOf(token) == "Bearer " \o ToStringJS(token)

SharedUse(projDefaults, base, token) ==
  Merge(projDefaults,
        [trace |-> "retain-on-failure",
         screenshot |-> "only-on-failure",
         headless |-> TRUE,
         baseURL |-> base,
         extraHTTPHeaders |-> [Authorization |-> AuthorizationOf(token)]])

SetupProject ==
  [name |-> "setup",
   testMatch |-> "**/login-storage-setup.ts",
   use |-> Merge(DesktopChrome,
                 [viewport |-> [width |-> 1600, height |-> 1000],
                  launchOptions |->
                    [args |-> <<"--disable-web-security">>, slowMo |-> 0]])]

ChromiumProject ==
  [name |-> "chromium",
   use |-> [viewport |-> "null",
            launchOptions |->
              [args |-> <<"--disable-web-security", "--start-maximized">>,
               slowMo |-> 0,
               headless |-> FALSE]]]

HeadlessProject(name) ==
  [name |-> name,
   use |-> Merge(DesktopChrome,
                 [viewport |-> [width |-> 1600, height |-> 1000],
                  launchOptions |->
                    [args |-> <<"--disable-web-security">>,
                     slowMo |-> 0,
                     headless |-> TRUE]])]

ProjectsNoFlag ==
  << SetupProject,
     [ChromiumProject EXCEPT !.use.launchOptions.args = <<"--start-maximized">>],
     HeadlessProject("chromiumheadless"),
     HeadlessProject("chromiumProd") >>
Projects ==
  << SetupProject,
     ChromiumProject,
     HeadlessProject("chromiumheadless"),
     HeadlessProject("chromiumProd") >>

WebServer(base) ==
  [cwd |-> HomeDir \o "/repos/ui",
   command |-> "npm start ui-server",
   url |-> base,
   ignoreHTTPSErrors |-> TRUE,
   timeout |-> 2 * 60 * 1000,
   reuseExistingServer |-> TRUE,
   stdout |-> "pipe",
   stderr |-> "pipe"]

OwnSettings(projDefaults, base, token) ==
  [testDir |-> "./tests",
   use |-> SharedUse(projDefaults, base, token),
   projects |-> Projects,
   webServer |-> WebServer(base)]

ConfigDefaultsLast(cfgDefaults, projDefaults, base, token) ==
  Merge(OwnSettings(projDefaults, base, token), cfgDefaults)
ConfigOf(cfgDefaults, projDefaults, base, token) ==
  Merge(cfgDefaults, OwnSettings(projDefaults, base, token))

NoConfig == Empty

(***************************************************************************)
(* How the runner reads a project's options.                               *)
(***************************************************************************)
\* A project's use options override the shared ones, key by key.
ProjectUse(cfg, i) == Merge(cfg.use, cfg.projects[i].use)

LaunchArgs(cfg, i) == ProjectUse(cfg, i).launchOptions.args

\* The headless option takes priority over launchOptions.headless; with
\* neither, the browser is headless.
EffectiveHeadless(cfg, i) ==
  LET u == ProjectUse(cfg, i) IN
  IF "headless" \in DOMAIN u THEN u.headless
  ELSE IF "headless" \in DOMAIN u.launchOptions THEN u.launchOptions.headless
  ELSE TRUE

\* Whether the configuration declares a server for the runner to bring up.
RequestsLocalServer(cfg) == "webServer" \in DOMAIN cfg

(***************************************************************************)
(* State.                                                                  *)
(***************************************************************************)
VARIABLES
  procEnv,            \* process.env
  envFile,            \* the .env file
  pkg,                \* the defaults the imported package exports
  pc,                 \* the statement the module's evaluation has reached
  BASE_URL,           \* export const BASE_URL
  STORAGE_STATE_PATH, \* export const STORAGE_STATE_PATH
  bearerToken,        \* const bearerToken
  config,             \* export default
  inherited,          \* the keys process.env held when the process started
  envChanged,         \* process.env or .env changed since the evaluation
  prevExports,        \* what the previous process's evaluation exported
  clean,              \* no change between the previous evaluation and this
  restarts

vars == <<procEnv, envFile, pkg, pc, BASE_URL, STORAGE_STATE_PATH, bearerToken,
          config, inherited, envChanged, prevExports, clean, restarts>>

NoExports == [set |-> FALSE, BASE_URL |-> Undefined,
              STORAGE_STATE_PATH |-> "", config |-> NoConfig]
Exports == [set |-> TRUE, BASE_URL |-> BASE_URL,
            STORAGE_STATE_PATH |-> STORAGE_STATE_PATH, config |-> config]

Init ==
  /\ procEnv \in Envs
  /\ envFile \in EnvFiles
  /\ pkg \in PkgChoices
  /\ pc = "start"
  /\ BASE_URL = Undefined
  /\ STORAGE_STATE_PATH = ""
  /\ bearerToken = Undefined
  /\ config = NoConfig
  /\ inherited = DOMAIN procEnv
  /\ envChanged = FALSE
  /\ prevExports = NoExports
  /\ clean = FALSE
  /\ restarts = 0

\* line 10: dotenv.config({ path: '.env' })
DotenvSkipped ==
  /\ pc = "start"
  /\ pc' = "loaded"
  /\ UNCHANGED procEnv
  /\ UNCHANGED <<envFile, pkg, BASE_URL, STORAGE_STATE_PATH, bearerToken,
                 config, inherited, envChanged, prevExports, clean, restarts>>
DotenvConfig ==
  /\ pc = "start"
  /\ procEnv' = DotenvPopulate(procEnv, envFile)
  /\ pc' = "loaded"
  /\ UNCHANGED <<envFile, pkg, BASE_URL, STORAGE_STATE_PATH, bearerToken,
                 config, inherited, envChanged, prevExports, clean, restarts>>

\* line 15: export const BASE_URL = process.env.URL || '...'
ReadBaseUrl ==
  /\ pc = "loaded"
  /\ BASE_URL' = BaseUrlOf(procEnv)
  /\ pc' = "baseurl"
  /\ UNCHANGED <<procEnv, envFile, pkg, STORAGE_STATE_PATH, bearerToken,
                 config, inherited, envChanged, prevExports, clean, restarts>>

\* line 16: export const STORAGE_STATE_PATH = path.join(__dirname, ...)
ReadStoragePath ==
  /\ pc = "baseurl"
  /\ STORAGE_STATE_PATH' = StoragePath
  /\ pc' = "storage"
  /\ UNCHANGED <<procEnv, envFile, pkg, BASE_URL, bearerToken,
                 config, inherited, envChanged, prevExports, clean, restarts>>

\* line 19: const bearerToken = process.env.BEARER_TOKEN
ReadBearerToken ==
  /\ pc = "storage"
  /\ bearerToken' = BearerTokenOf(procEnv)
  /\ pc' = "bearer"
  /\ UNCHANGED <<procEnv, envFile, pkg, BASE_URL, STORAGE_STATE_PATH,
                 config, inherited, envChanged, prevExports, clean, restarts>>

\* lines 21-176: export default defineConfig({ ... })
DefineConfig ==
  /\ pc = "bearer"
  /\ config' = ConfigOf(pkg.cfg, pkg.proj, BASE_URL, bearerToken)
  /\ clean' = (prevExports.set /\ ~envChanged)
  /\ envChanged' = FALSE
  /\ pc' = "done"
  /\ UNCHANGED <<procEnv, envFile, pkg, BASE_URL, STORAGE_STATE_PATH,
                 bearerToken, inherited, prevExports, restarts>>

\* After the evaluation: code of the process assigns process.env[k] = v.
SetEnvLive ==
  /\ pc = "done"
  /\ \E k \in Keys : \E v \in ValuesOf(k) :
       /\ EnvGet(procEnv, k) # Str(v)
       /\ procEnv' = Merge(procEnv, [x \in {k} |-> v])
  /\ BASE_URL' = BaseUrlOf(procEnv')
  /\ config' = ConfigOf(pkg.cfg, pkg.proj, BASE_URL', BearerTokenOf(procEnv'))
  /\ envChanged' = TRUE
  /\ UNCHANGED <<envFile, pkg, pc, STORAGE_STATE_PATH, bearerToken,
                 inherited, prevExports, clean, restarts>>
SetEnv ==
  /\ pc = "done"
  /\ \E k \in Keys : \E v \in ValuesOf(k) :
       /\ EnvGet(procEnv, k) # Str(v)
       /\ procEnv' = Merge(procEnv, [x \in {k} |-> v])
  /\ envChanged' = TRUE
  /\ UNCHANGED <<envFile, pkg, pc, BASE_URL, STORAGE_STATE_PATH, bearerToken,
                 config, inherited, prevExports, clean, restarts>>

\* delete process.env[k]
UnsetEnv ==
  /\ pc = "done"
  /\ \E k \in DOMAIN procEnv :
       procEnv' = [x \in DOMAIN procEnv \ {k} |-> procEnv[x]]
  /\ envChanged' = TRUE
  /\ UNCHANGED <<envFile, pkg, pc, BASE_URL, STORAGE_STATE_PATH, bearerToken,
                 config, inherited, prevExports, clean, restarts>>

\* A new process (a worker of the runner, a new session) inherits the
\* environment and evaluates the module again.
Restart ==
  /\ pc = "done"
  /\ restarts < MaxRestarts
  /\ restarts' = restarts + 1
  /\ prevExports' = Exports
  /\ pc' = "start"
  /\ BASE_URL' = Undefined
  /\ STORAGE_STATE_PATH' = ""
  /\ bearerToken' = Undefined
  /\ config' = NoConfig
  /\ inherited' = DOMAIN procEnv
  /\ UNCHANGED <<procEnv, envFile, pkg, envChanged, clean>>

Next ==
  \/ DotenvConfig
  \/ ReadBaseUrl
  \/ ReadStoragePath
  \/ ReadBearerToken
  \/ DefineConfig
  \/ SetEnv
  \/ UnsetEnv
  \/ Restart

Spec == Init /\ [][Next]_vars

(***************************************************************************)
(* Properties.                                                             *)
(***************************************************************************)
\* The evaluation has finished and nothing has changed the environment since:
\* procEnv is the environment the constants were read from.
Resolved == pc = "done" /\ ~envChanged

Authorization == config.use.extraHTTPHeaders.Authorization

ProjectNames == [i \in DOMAIN config.projects |-> config.projects[i].name]

LocalhostUrls == {"http://localhost:3000"}
IsLocalhost(u) == u.s \in LocalhostUrls

\* C1: whenever BEARER_TOKEN is unset when the module is evaluated, the
\* Authorization header of the exported configuration is exactly "Bearer ".
C1_UnsetTokenGivesEmptyBearer ==
  (Resolved /\ "BEARER_TOKEN" \notin DOMAIN procEnv) => Authorization = "Bearer "

\* C2: the base URL (BASE_URL and use.baseURL) is the value of URL, unchanged,
\* when URL is set and non-empty, and the literal default otherwise.
C2_BaseUrlIsUrlOrDefault ==
  Resolved =>
    /\ config.use.baseURL = BASE_URL
    /\ BASE_URL.t = "string"
    /\ BASE_URL.s = IF "URL" \in DOMAIN procEnv /\ procEnv["URL"] # ""
                      THEN procEnv["URL"]
                      ELSE "https://www.saucedemo.com"

C2_Witness ==
  /\ Resolved
  /\ "URL" \in DOMAIN procEnv
  /\ procEnv["URL"] = "https://example.test"
  /\ config.use.baseURL = Str("https://example.test")

\* C3: in every environment the chromium profile runs headed (headless =
\* false) and setup, chromiumheadless and chromiumProd run headless.
C3_HeadlessPerProfile ==
  pc = "done" =>
    \A i \in DOMAIN config.projects :
      EffectiveHeadless(config, i) = (config.projects[i].name # "chromium")

\* C4: the profile list is setup, chromium, chromiumheadless, chromiumProd, in
\* that order, without a repeated name, and every profile's launch flags
\* contain --disable-web-security.
C4_FourProfilesWithFlag ==
  pc = "done" =>
    /\ ProjectNames = <<"setup", "chromium", "chromiumheadless", "chromiumProd">>
    /\ \A i, j \in DOMAIN ProjectNames :
         ProjectNames[i] = ProjectNames[j] => i = j
    /\ \A i \in DOMAIN config.projects :
         \E n \in DOMAIN LaunchArgs(config, i) :
           LaunchArgs(config, i)[n] = "--disable-web-security"

C4_Witness ==
  /\ pc = "done"
  /\ "projects" \in DOMAIN pkg.cfg
  /\ "URL" \in DOMAIN procEnv
  /\ Len(config.projects) = 4
  /\ LaunchArgs(config, 2) = <<"--disable-web-security", "--start-maximized">>

\* C5: in every environment the server descriptor's timeout is 120000 ms and
\* its reuseExistingServer is true.
C5_ServerTimeoutAndReuse ==
  pc = "done" =>
    /\ config.webServer.timeout = 120000
    /\ config.webServer.reuseExistingServer = TRUE

C5_Witness ==
  /\ pc = "done"
  /\ "webServer" \in DOMAIN pkg.cfg
  /\ Keys \subseteq DOMAIN procEnv
  /\ config.webServer.timeout = 120000
  /\ config.webServer.reuseExistingServer

\* C6: an evaluation that follows another with no change of the environment
\* in between exports the same base URL, storage state path and configuration,
\* also when the first evaluation loaded .env into process.env.
C6_ResolutionIdempotent ==
  (pc = "done" /\ prevExports.set /\ clean) => Exports = prevExports

C6_Witness ==
  /\ pc = "done"
  /\ prevExports.set
  /\ clean
  /\ envFile.present
  /\ "URL" \in DOMAIN envFile.parsed
  /\ "URL" \in DOMAIN procEnv
  /\ procEnv["URL"] = envFile.parsed["URL"]
  /\ prevExports.BASE_URL = Str("https://example.test")
  /\ BASE_URL = prevExports.BASE_URL

\* C8: .env is loaded before the variables are read: a URL or BEARER_TOKEN
\* that only .env defines decides the base URL and the Authorization header.
C8_DotenvDecides ==
  (Resolved /\ envFile.present) =>
    /\ ("URL" \in DOMAIN envFile.parsed \ inherited) =>
         /\ BASE_URL = OrJS(Str(envFile.parsed["URL"]), Str(DefaultUrl))
         /\ config.use.baseURL = BASE_URL
    /\ ("BEARER_TOKEN" \in DOMAIN envFile.parsed \ inherited) =>
         Authorization = "Bearer " \o envFile.parsed["BEARER_TOKEN"]

C8_Witness ==
  /\ Resolved
  /\ envFile.present
  /\ {"URL", "BEARER_TOKEN"} \subseteq DOMAIN envFile.parsed \ inherited
  /\ config.use.baseURL = Str("http://localhost:3000")
  /\ Authorization = "Bearer abc123"

\* C9: once the module is evaluated, no change of the environment changes
\* what it exported: base URL, storage state path, Authorization header,
\* profile list and server descriptor stay as they are.
C9_ExportsImmutable ==
  [][(pc = "done" /\ pc' = "done") => Exports' = Exports]_vars

C9_Witness ==
  /\ pc = "done"
  /\ envChanged
  /\ BaseUrlOf(procEnv) # BASE_URL
  /\ AuthorizationOf(BearerTokenOf(procEnv)) # Authorization

\* C10: when the base URL is not a localhost URL, the configuration does not
\* ask the runner for a local server.
C10_ServerOnlyForLocalhost ==
  (pc = "done" /\ ~IsLocalhost(config.use.baseURL)) => ~RequestsLocalServer(config)

====
